---- MODULE Spec2Model ----
(***************************************************************************)
(* Press-ethics analyzer: the five-stage analysis pipeline                 *)
(* (extract -> image -> search -> decide -> review) in its two             *)
(* implementations, the LangGraph graph of                                 *)
(* multimodal_rag_langgraph_gemini.py (variables g_pc, state, g_calls,     *)
(* g_ret) and the inline sequence analyze_article_streamlit of             *)
(* multimodal_rag_langgraph_gemini_st.py (variables s_pc, st, s_calls,     *)
(* s_status, s_ret), both run on the same outcomes of the collaborators    *)
(* (variable env: extractor, image fetch, index query, generation calls).  *)
(*                                                                         *)
(* Python strings are sequences of characters; a character is written as   *)
(* a short ASCII token:                                                    *)
(*   "wi" "ban" "sp" "eop" "eum"   the syllables of "위반 없음"            *)
(*   "nl" newline, "x" any other character, "dot" "."                      *)
(*   "je" 제, "jo" 조, "lq" 「, "rq" 」, "hang" 항, "ho" 호, "lp" (, "rp" )   *)
(*   "0".."9" digits, "c1".."c10" the circled ordinals                     *)
(***************************************************************************)
EXTENDS Integers, Sequences, FiniteSets, TLC

VARIABLES env, g_pc, state, g_calls, g_ret, s_pc, st, s_calls, s_status, s_ret

\* The prompt each implementation hands to the Decide generation call
VARIABLES g_prompt, s_prompt

\* One call of extract_article of news_text_scraper.py, strategy by strategy
VARIABLES e_pc, e_playwright, e_result, e_log, e_ret

\* correct_article_reference applied to a text c_text built from the parts
\* c_in, and applied again to its own result
VARIABLES c_pc, c_in, c_text, c_once, c_twice

\* parse_regulation_dict applied to the lines p_lines
VARIABLES p_pc, p_lines, p_out

\* The requests served at the same time by one Streamlit process: the key
\* genai.configure set last, the st.cache_resource cache, and for each
\* request its position, the key it was given and the keys its generation
\* calls went out with
VARIABLES genai_api_key, cache_resource, r_pc, r_key, r_used

g_vars == <<g_pc, state, g_calls, g_ret, g_prompt>>
s_vars == <<s_pc, st, s_calls, s_status, s_ret, s_prompt>>
e_vars == <<e_pc, e_playwright, e_result, e_log, e_ret>>
c_vars == <<c_pc, c_in, c_text, c_once, c_twice>>
p_vars == <<p_pc, p_lines, p_out>>
r_vars == <<genai_api_key, cache_resource, r_pc, r_key, r_used>>
\* What the pipeline actions leave alone
aux_vars == <<e_vars, c_vars, p_vars, r_vars>>
vars == <<env, g_vars, s_vars, aux_vars>>

(***************************************************************************)
(* Python values                                                           *)
(***************************************************************************)
\* None where a string is expected (a title, an image description)
None == <<"None">>
\* None where a dict is expected (extract_article's "not found")
NoneDict == [py_none |-> TRUE]
\* {} : the default of state.get('article', {})
EmptyDict == [py_empty |-> TRUE]

\* Python truthiness of a string-or-None value
Truthy(v) == v # None /\ v # <<>>

\* dict.get(k, default) and d[k] = v on a dict held as a function from keys
Get(d, k, default) == IF k \in DOMAIN d THEN d[k] ELSE default
Put(d, k, v) == [y \in (DOMAIN d) \cup {k} |-> IF y = k THEN v ELSE d[y]]

(***************************************************************************)
(* String operations                                                       *)
(***************************************************************************)
\* sub in s
Contains(s, sub) ==
  \E i \in 0..(Len(s) - Len(sub)) : SubSeq(s, i + 1, i + Len(sub)) = sub

RECURSIVE Split(_, _)
\* s.split(sep) for a one-character separator: the list of the pieces
Split(s, sep) ==
  IF \A i \in 1..Len(s) : s[i] # sep
  THEN <<s>>
  ELSE LET i == CHOOSE j \in 1..Len(s) :
                  s[j] = sep /\ \A k \in 1..(j - 1) : s[k] # sep
       IN <<SubSeq(s, 1, i - 1)>> \o Split(SubSeq(s, i + 1, Len(s)), sep)

RECURSIVE Join(_, _)
\* sep.join(parts)
Join(parts, sep) ==
  IF parts = <<>> THEN <<>>
  ELSE IF Len(parts) = 1 THEN parts[1]
  ELSE parts[1] \o sep \o Join(Tail(parts), sep)

Whitespace == {"sp", "nl"}

RECURSIVE LStrip(_)
LStrip(s) == IF s # <<>> /\ s[1] \in Whitespace THEN LStrip(Tail(s)) ELSE s

RECURSIVE RStrip(_)
RStrip(s) ==
  IF s # <<>> /\ s[Len(s)] \in Whitespace
  THEN RStrip(SubSeq(s, 1, Len(s) - 1)) ELSE s

\* strip taking the white space off the left end only
Strip_left_only(s) == LStrip(s)

\* s.strip()
Strip(s) == RStrip(LStrip(s))

\* "위반", "위반 없음", "위반없음"
Violation == <<"wi", "ban">>
NoViolation == <<"wi", "ban", "sp", "eop", "eum">>
NoViolationAlt == <<"wi", "ban", "eop", "eum">>

(***************************************************************************)
(* Regulation knowledge base and citation corrector                        *)
(***************************************************************************)
Digits == {"0", "1", "2", "3", "4", "5", "6", "7", "8", "9"}
Ordinals == {"c1", "c2", "c3", "c4", "c5", "c6", "c7", "c8", "c9", "c10"}

\* REGULATION_DICT restricted to the articles 1, 4 and 10 and to the
\* ordinals 1, 2 and 5 (article 4 has the two items 1 and 2 only); a name
\* or an item text is abbreviated to two characters, none of them "rq",
\* "lp" or "rp", as in the regulation text.
REGULATION_DICT ==
  (<<"1">> :> [name |-> <<"n", "1">>,
               items |-> ("c1" :> <<"a", "1">> @@ "c2" :> <<"a", "2">>
                          @@ "c5" :> <<"a", "5">>)])
  @@ (<<"4">> :> [name |-> <<"n", "4">>,
                  items |-> ("c1" :> <<"b", "1">> @@ "c2" :> <<"b", "2">>)])
  @@ (<<"1", "0">> :> [name |-> <<"n", "10">>,
                       items |-> ("c1" :> <<"d", "1">> @@ "c2" :> <<"d", "2">>
                                  @@ "c5" :> <<"d", "5">>)])

\* the index of the first occurrence of c in t at or after i, 0 if none
FirstAt(t, i, c) ==
  IF \E j \in i..Len(t) : t[j] = c
  THEN CHOOSE j \in i..Len(t) : t[j] = c /\ \A k \in i..(j - 1) : t[k] # c
  ELSE 0

\* \d+ from i: the index of the last digit of the run starting at i, 0 if
\* t[i] is no digit
DigitsEnd(t, i) ==
  IF i > Len(t) \/ t[i] \notin Digits THEN 0
  ELSE CHOOSE j \in i..Len(t) :
         /\ \A k \in i..j : t[k] \in Digits
         /\ (j = Len(t) \/ t[j + 1] \notin Digits)

\* the pattern with one optional parenthetical, (?:\([^)]*\))?
ParensEnd_one(t, e) ==
  IF e + 1 <= Len(t) /\ t[e + 1] = "lp" /\ FirstAt(t, e + 2, "rp") # 0
  THEN FirstAt(t, e + 2, "rp")
  ELSE e

RECURSIVE ParensEnd(_, _)
\* (?:\([^)]*\))* after position e: the index of the last character matched
ParensEnd(t, e) ==
  IF e + 1 <= Len(t) /\ t[e + 1] = "lp" /\ FirstAt(t, e + 2, "rp") # 0
  THEN ParensEnd(t, FirstAt(t, e + 2, "rp"))
  ELSE e

\* The match of the citation pattern
\*   제(\d+)조「([^」]+)」([①-⑩])(?:항|호)?(?:\([^)]*\))*
\* starting at position i of t: the groups and the index of the last
\* character matched, or ok = FALSE.
MatchAt(t, i) ==
  LET nomatch == [ok |-> FALSE, num |-> <<>>, name |-> <<>>, item |-> "",
                  end |-> 0]
      dEnd == DigitsEnd(t, i + 1)
      rq == FirstAt(t, dEnd + 3, "rq")
      q == IF rq + 2 <= Len(t) /\ t[rq + 2] \in {"hang", "ho"}
           THEN rq + 2 ELSE rq + 1
  IN IF i > Len(t) \/ t[i] # "je" \/ dEnd = 0 THEN nomatch
     ELSE IF dEnd + 2 > Len(t) \/ t[dEnd + 1] # "jo" \/ t[dEnd + 2] # "lq"
     THEN nomatch
     ELSE IF rq = 0 \/ rq = dEnd + 3 THEN nomatch
     ELSE IF rq + 1 > Len(t) \/ t[rq + 1] \notin Ordinals THEN nomatch
     ELSE [ok |-> TRUE, num |-> SubSeq(t, i + 1, dEnd),
           name |-> SubSeq(t, dEnd + 3, rq - 1), item |-> t[rq + 1],
           end |-> ParensEnd(t, q)]

\* replace_match keeping the name the text cites
replace_match_keeps_name(t, i, m) ==
  IF m.num \in DOMAIN REGULATION_DICT
  THEN LET items == REGULATION_DICT[m.num].items
           head == <<"je">> \o m.num \o <<"jo", "lq">> \o m.name
                     \o <<"rq", m.item>>
       IN IF m.item \in DOMAIN items
          THEN head \o <<"lp">> \o items[m.item] \o <<"rp">>
          ELSE head
  ELSE SubSeq(t, i, m.end)

\* replace_match: the replacement of the match m found in t at position i
replace_match(t, i, m) ==
  IF m.num \in DOMAIN REGULATION_DICT
  THEN LET correct_name == REGULATION_DICT[m.num].name
           items == REGULATION_DICT[m.num].items
           head == <<"je">> \o m.num \o <<"jo", "lq">> \o correct_name
                     \o <<"rq", m.item>>
       IN IF m.item \in DOMAIN items
          THEN head \o <<"lp">> \o items[m.item] \o <<"rp">>
          ELSE head
  ELSE SubSeq(t, i, m.end)

RECURSIVE SubFrom_matches_only(_, _)
\* re.sub keeping the replaced matches and dropping the text between them
SubFrom_matches_only(t, i) ==
  IF i > Len(t) THEN <<>>
  ELSE LET m == MatchAt(t, i)
       IN IF m.ok
          THEN replace_match(t, i, m) \o SubFrom_matches_only(t, m.end + 1)
          ELSE SubFrom_matches_only(t, i + 1)

RECURSIVE SubFrom(_, _)
\* re.sub(pattern, replace_match, text) from position i on: leftmost
\* non-overlapping matches, one pass
SubFrom(t, i) ==
  IF i > Len(t) THEN <<>>
  ELSE LET m == MatchAt(t, i)
       IN IF m.ok
          THEN replace_match(t, i, m) \o SubFrom(t, m.end + 1)
          ELSE <<t[i]>> \o SubFrom(t, i + 1)

correct_article_reference(text) == SubFrom(text, 1)

(***************************************************************************)
(* Collaborator outcomes                                                   *)
(***************************************************************************)
\* the largest number of results the index holds for a query (at most
\* n_results)
MaxCases == 2
n_results == 5
\* the number of characters of the body that go into a prompt
text_limit == 2000

Url == <<"u">>
Title == <<"t">>
Body == <<"x", "x">>
ImageUrl == <<"i">>

\* extract_article(url): None, or the dict of title, text and image_url it
\* returns as soon as it has a title or a text
Articles ==
  {NoneDict,
   [title |-> Title, text |-> None, image_url |-> None],
   [title |-> None, text |-> Body, image_url |-> None],
   [title |-> Title, text |-> Body, image_url |-> None],
   [title |-> Title, text |-> Body, image_url |-> ImageUrl]}

Ok(v) == [err |-> "", val |-> v]
Fail(e) == [err |-> e, val |-> <<>>]

\* requests.get / Image.open / call_gemini of the image stage
ImageOutcomes ==
  {Fail("fetch_error"), Fail("bad_image"), Fail("gen_fail"), Ok(<<"x">>)}

\* the reason of a precedent case; a metadata without 'reason' is NoReason
NoReason == <<"KeyError">>
Reasons ==
  {<<"x">> \o Violation,
   NoViolation \o <<"x">>,
   NoViolationAlt,
   <<"x">>,
   NoViolation \o <<"nl">> \o Violation}

RECURSIVE SeqsUpTo(_, _)
SeqsUpTo(S, n) ==
  IF n = 0 THEN {<<>>}
  ELSE LET shorter == SeqsUpTo(S, n - 1)
       IN shorter \cup {Append(q, e) : q \in shorter, e \in S}

\* ef([text]) and collection.query(query_embeddings, n_results=5): the
\* reasons of results['metadatas'][0], in rank order
SearchOutcomes ==
  {Fail("embed_fail"), Fail("query_fail")}
    \cup {Ok(r) : r \in SeqsUpTo(Reasons \cup {NoReason}, MaxCases)}

\* a citation 제<num>조「<name>」<item><tail>
Cite(num, name, item, tail) ==
  <<"je">> \o num \o <<"jo", "lq">> \o name \o <<"rq", item>> \o tail

\* call_gemini(prompt) of the Decide stage: the draft
Drafts ==
  {NoViolation,
   <<"x">> \o NoViolationAlt \o <<"x">>,
   <<"x">> \o Violation \o <<"sp">>
      \o Cite(<<"1">>, <<"y">>, "c2", <<"hang", "lp", "y", "rp">>) \o <<"dot">>,
   <<"x">> \o Cite(<<"9">>, <<"y">>, "c1", <<>>) \o <<"dot">>}
DecideOutcomes == {Fail("gen_fail")} \cup {Ok(d) : d \in Drafts}

\* call_gemini(review_prompt) of the Review stage
Reviews ==
  {<<"sp">> \o Cite(<<"1">>, <<"y">>, "c2", <<"hang", "lp", "y", "rp">>)
      \o <<"dot", "nl">>,
   <<"x">> \o Cite(<<"4">>, <<"n", "4">>, "c5", <<"lp", "y", "rp">>) \o <<"dot">>,
   <<"x">> \o Cite(<<"9">>, <<"y">>, "c1", <<>>) \o <<"dot">>,
   <<"x", "dot">>}
ReviewOutcomes == {Fail("gen_fail")} \cup {Ok(r) : r \in Reviews}

\* The outcomes collaborator k can have: any of S until it is drawn, the
\* drawn one from then on
Outcomes(k, S) == IF k \in DOMAIN env THEN {env[k]} ELSE S

\* The outcome o of collaborator k: drawn at its first call, the same for
\* the two implementations
Draw(k, o) ==
  /\ k \in DOMAIN env => env[k] = o
  /\ env' = Put(env, k, o)

(***************************************************************************)
(* Stage logic shared by the two files                                     *)
(***************************************************************************)
\* not article or not article.get('text')
ExtractionFailed(article) ==
  \/ article = NoneDict
  \/ article = EmptyDict
  \/ ~Truthy(article.text)

\* the if / elif of the tally on one text (a reason, or a line of
\* similar_cases)
Tally(text) ==
  IF Contains(text, Violation) /\ ~Contains(text, NoViolation)
       /\ ~Contains(text, NoViolationAlt)
  THEN "violation"
  ELSE IF Contains(text, NoViolation) \/ Contains(text, NoViolationAlt)
  THEN "no_violation"
  ELSE "neither"

\* the number of texts of the sequence texts that the tally puts in kind
Count(texts, kind) ==
  Cardinality({i \in 1..Len(texts) : Tally(texts[i]) = kind})

\* str(n) for a one-digit n
Str(n) == <<(<<"0", "1", "2", "3", "4", "5", "6", "7", "8", "9">>)[n + 1]>>

\* f"{i+1}. {reason}" for every result i
CaseLines(reasons) ==
  [i \in 1..Len(reasons) |-> Str(i) \o <<"dot", "sp">> \o reasons[i]]

\* the number of results the loop over the metadatas handles before
\* metadata['reason'] raises KeyError (all of them if none raises)
Handled(reasons) ==
  IF \E i \in 1..Len(reasons) : reasons[i] = NoReason
  THEN (CHOOSE i \in 1..Len(reasons) :
          reasons[i] = NoReason /\ \A j \in 1..(i - 1) : reasons[j] # NoReason)
       - 1
  ELSE Len(reasons)

\* HasNoViolationMarker testing the spaced spelling only
HasNoViolationMarker_spaced_only(decision) == Contains(decision, NoViolation)

\* "위반 없음" in decision or "위반없음" in decision
HasNoViolationMarker(decision) ==
  Contains(decision, NoViolation) \/ Contains(decision, NoViolationAlt)

(***************************************************************************)
(* The LangGraph pipeline (multimodal_rag_langgraph_gemini.py)             *)
(***************************************************************************)
ExtractError == <<"extract_failed">>
DecideError == <<"decide_failed">>

\* add_edge(node, next): the edges of create_workflow, taken whenever the
\* node returns
Edge(node) ==
  CASE node = "extract" -> "image"
    [] node = "image" -> "search"
    [] node = "search" -> "decide"
    [] node = "decide" -> "review"
    [] node = "review" -> "END"

extract_node ==
  /\ g_pc = "extract"
  /\ \E article \in Outcomes("article", Articles) :
       /\ Draw("article", article)
       /\ g_calls' = Append(g_calls, "extract_article")
       /\ IF ExtractionFailed(article)
          THEN /\ state' = Put(state, "error", ExtractError)
               /\ g_pc' = Edge("extract")
               /\ g_ret' = g_ret
          ELSE IF article.title = None
          \* article.get('title', '')[:50] on a None title: TypeError, the
          \* node never returns and invoke raises
          THEN /\ state' = state
               /\ g_pc' = "crashed"
               /\ g_ret' = "raised"
          ELSE /\ state' = Put(state, "article", article)
               /\ g_pc' = Edge("extract")
               /\ g_ret' = g_ret
  /\ UNCHANGED s_vars
  /\ UNCHANGED <<g_prompt, aux_vars>>

\* image_except recording the failure as an error
image_except_sets_error(s0) ==
  Put(Put(s0, "image_desc", None), "error", <<"image_failed">>)

\* the except branch of image_node
image_except(s0) == Put(s0, "image_desc", None)

image_node ==
  /\ g_pc = "image"
  /\ LET article == Get(state, "article", EmptyDict)
         img_url == Get(article, "image_url", None)
     IN IF ~Truthy(img_url)
        THEN /\ state' = Put(state, "image_desc", None)
             /\ UNCHANGED <<env, g_calls>>
        ELSE \E o \in Outcomes("image", ImageOutcomes) :
               /\ Draw("image", o)
               /\ g_calls' = g_calls \o
                    (IF o.err \in {"fetch_error", "bad_image"}
                     THEN <<"image_fetch">>
                     ELSE <<"image_fetch", "gen_image">>)
               /\ state' = IF o.err = ""
                           THEN Put(state, "image_desc", o.val)
                           ELSE image_except(state)
  /\ g_pc' = Edge("image")
  /\ UNCHANGED <<g_ret, s_vars>>
  /\ UNCHANGED <<g_prompt, aux_vars>>

\* search_except resetting the image description as well
search_except_resets_image(s0) ==
  Put(Put(s0, "similar_cases", <<>>), "image_desc", None)

\* the except branch of search_node
search_except(s0) == Put(s0, "similar_cases", <<>>)

search_node ==
  /\ g_pc = "search"
  /\ \E o \in Outcomes("search", SearchOutcomes) :
       /\ Draw("search", o)
       /\ g_calls' = g_calls \o
            (IF o.err = "embed_fail" THEN <<"embed">> ELSE <<"embed", "query">>)
       /\ state' = IF o.err = "" /\ Handled(o.val) = Len(o.val)
                   THEN Put(state, "similar_cases",
                            Join(CaseLines(o.val), <<"nl">>))
                   ELSE search_except(state)
  /\ g_pc' = Edge("search")
  /\ UNCHANGED <<g_ret, s_vars>>
  /\ UNCHANGED <<g_prompt, aux_vars>>

\* s[:n]
Take(s, n) == SubSeq(s, 1, IF Len(s) < n THEN Len(s) ELSE n)

\* the prompt of the Decide stage, the same f-strings in the two files.
\* "REGULATION" and "INST_PROMPT" stand for the two fixed texts, "h_article"
\* "h_image" "h_cases" for the headers "#기사:" "#이미지:" "#유사사례:", and
\* "note" for the sentence that tells the model to consider "위반 없음", which
\* carries the count.
decide_prompt(article, image_desc, similar_cases, no_violation_count) ==
  <<"REGULATION", "nl", "nl", "INST_PROMPT", "nl", "nl", "h_article", "nl">>
    \o Get(article, "title", <<>>) \o <<"sp">>
    \o Take(Get(article, "text", <<>>), text_limit)
    \o (IF Truthy(image_desc)
        THEN <<"nl", "nl", "h_image", "nl">> \o image_desc ELSE <<>>)
    \o (IF similar_cases # <<>>
        THEN <<"nl", "nl", "h_cases", "nl">> \o similar_cases
               \o (IF no_violation_count >= 4
                   THEN <<"nl", "nl", "note">> \o Str(no_violation_count)
                   ELSE <<>>)
        ELSE <<>>)

\* the two counters of decide_node, over the lines of similar_cases
LineCount(similar_cases, kind) ==
  IF similar_cases = <<>> THEN 0
  ELSE Count(Split(similar_cases, "nl"), kind)

decide_node ==
  /\ g_pc = "decide"
  /\ LET similar_cases == Get(state, "similar_cases", <<>>)
         violation_count == LineCount(similar_cases, "violation")
         no_violation_count == LineCount(similar_cases, "no_violation")
     IN \E o \in Outcomes("decide", DecideOutcomes) :
          /\ Draw("decide", o)
          /\ g_calls' = Append(g_calls, "gen_decide")
          /\ g_prompt' = decide_prompt(Get(state, "article", EmptyDict),
                                       Get(state, "image_desc", None),
                                       similar_cases, no_violation_count)
          /\ IF o.err = ""
             THEN state' = Put(Put(state, "decision", o.val),
                               "violation_count", violation_count)
             ELSE state' = Put(Put(Put(state, "error", DecideError),
                                   "decision", <<>>),
                               "violation_count", violation_count)
  /\ g_pc' = Edge("decide")
  /\ UNCHANGED <<g_ret, s_vars>>
  /\ UNCHANGED aux_vars

\* review_except reporting the unreviewed draft as passed
review_except_passed(decision) ==
  [passed |-> TRUE, issues |-> <<"review_error">>, final_decision |-> decision]

\* the review_result of the except branch of review_node
review_except(decision) ==
  [passed |-> FALSE, issues |-> <<"review_error">>, final_decision |-> decision]

review_node ==
  /\ g_pc = "review"
  /\ LET decision == Get(state, "decision", <<>>)
     IN IF HasNoViolationMarker(decision)
        THEN /\ state' = Put(state, "review_result",
                             [passed |-> TRUE, issues |-> <<>>,
                              final_decision |-> NoViolation])
             /\ UNCHANGED <<env, g_calls>>
        ELSE \E o \in Outcomes("review", ReviewOutcomes) :
               /\ Draw("review", o)
               /\ g_calls' = Append(g_calls, "gen_review")
               /\ IF o.err = ""
                  THEN state' = Put(state, "review_result",
                         [passed |-> TRUE, issues |-> <<>>,
                          final_decision |->
                            correct_article_reference(Strip(o.val))])
                  ELSE state' = Put(state, "review_result",
                                    review_except(decision))
  /\ g_pc' = Edge("review")
  /\ UNCHANGED <<g_ret, s_vars>>
  /\ UNCHANGED <<g_prompt, aux_vars>>

\* analyze_article after app.invoke: None on error, else the final state
analyze_article ==
  /\ g_pc = "END"
  /\ g_ret' = IF Truthy(Get(state, "error", None)) THEN "None" ELSE "result"
  /\ g_pc' = "returned"
  /\ UNCHANGED <<env, state, g_calls, s_vars>>
  /\ UNCHANGED <<g_prompt, aux_vars>>

(***************************************************************************)
(* The inline pipeline (multimodal_rag_langgraph_gemini_st.py)             *)
(***************************************************************************)
\* return None
ReturnNone(msg) ==
  /\ s_status' = Append(s_status, msg)
  /\ s_ret' = "None"
  /\ s_pc' = "returned"

st_extract ==
  /\ s_pc = "extract"
  /\ \E article \in Outcomes("article", Articles) :
       /\ Draw("article", article)
       /\ s_calls' = Append(s_calls, "extract_article")
       /\ IF ExtractionFailed(article)
          THEN /\ ReturnNone("error: extract")
               /\ st' = st
          ELSE IF article.title = None
          \* article.get('title', '')[:50] on a None title: TypeError,
          \* caught by the except of the stage
          THEN /\ ReturnNone("error: extract exception")
               /\ st' = [st EXCEPT !.article = article]
          ELSE /\ st' = [st EXCEPT !.article = article]
               /\ s_status' = Append(s_status, "success: extract")
               /\ s_pc' = "image"
               /\ s_ret' = s_ret
  /\ UNCHANGED g_vars
  /\ UNCHANGED <<s_prompt, aux_vars>>

st_image ==
  /\ s_pc = "image"
  /\ LET img_url == Get(st.article, "image_url", None)
     IN IF ~Truthy(img_url)
        THEN /\ st' = [st EXCEPT !.image_desc = None]
             /\ s_status' = Append(s_status, "info: no image")
             /\ UNCHANGED <<env, s_calls>>
        ELSE \E o \in Outcomes("image", ImageOutcomes) :
               /\ Draw("image", o)
               /\ s_calls' = s_calls \o
                    (IF o.err \in {"fetch_error", "bad_image"}
                     THEN <<"image_fetch">>
                     ELSE <<"image_fetch", "gen_image">>)
               /\ st' = [st EXCEPT !.image_desc =
                           IF o.err = "" THEN o.val ELSE None]
               /\ s_status' = Append(s_status,
                    IF o.err = "" THEN "success: image" ELSE "warning: image")
  /\ s_pc' = "search"
  /\ UNCHANGED <<s_ret, g_vars>>
  /\ UNCHANGED <<s_prompt, aux_vars>>

st_search ==
  /\ s_pc = "search"
  /\ IF ~st.collection
     \* load_chroma_collection() returned None
     THEN /\ st' = [st EXCEPT !.similar_cases = <<>>,
                              !.violation_count = 0,
                              !.no_violation_count = 0]
          /\ s_status' = Append(s_status, "warning: search")
          /\ UNCHANGED <<env, s_calls>>
     ELSE \E o \in Outcomes("search", SearchOutcomes) :
            /\ Draw("search", o)
            /\ s_calls' = s_calls \o
                 (IF o.err = "embed_fail" THEN <<"embed">>
                  ELSE <<"embed", "query">>)
            /\ IF o.err # ""
               THEN /\ st' = [st EXCEPT !.similar_cases = <<>>,
                                        !.violation_count = 0,
                                        !.no_violation_count = 0]
                    /\ s_status' = Append(s_status, "warning: search")
               ELSE LET done == SubSeq(o.val, 1, Handled(o.val))
                        complete == Handled(o.val) = Len(o.val)
                    IN /\ st' = [st EXCEPT
                            !.similar_cases =
                               IF complete
                               THEN Join(CaseLines(o.val), <<"nl">>)
                               ELSE <<>>,
                            !.violation_count = Count(done, "violation"),
                            !.no_violation_count = Count(done, "no_violation")]
                       /\ s_status' = Append(s_status,
                            IF complete THEN "success: search"
                            ELSE "warning: search")
  /\ s_pc' = "decide"
  /\ UNCHANGED <<s_ret, g_vars>>
  /\ UNCHANGED <<s_prompt, aux_vars>>

st_decide ==
  /\ s_pc = "decide"
  /\ \E o \in Outcomes("decide", DecideOutcomes) :
       /\ Draw("decide", o)
       /\ s_calls' = Append(s_calls, "gen_decide")
       /\ s_prompt' = decide_prompt(st.article, st.image_desc,
                                    st.similar_cases, st.no_violation_count)
       /\ IF o.err = ""
          THEN /\ st' = [st EXCEPT !.decision = o.val]
               /\ s_status' = Append(s_status, "success: decide")
               /\ s_pc' = "review"
               /\ s_ret' = s_ret
          ELSE /\ ReturnNone("error: decide")
               /\ st' = st
  /\ UNCHANGED g_vars
  /\ UNCHANGED aux_vars

st_review ==
  /\ s_pc = "review"
  /\ IF HasNoViolationMarker(st.decision)
     THEN /\ st' = [st EXCEPT !.final_decision = NoViolation]
          /\ s_status' = Append(s_status, "success: review")
          /\ UNCHANGED <<env, s_calls>>
     ELSE \E o \in Outcomes("review", ReviewOutcomes) :
            /\ Draw("review", o)
            /\ s_calls' = Append(s_calls, "gen_review")
            /\ IF o.err = ""
               THEN /\ st' = [st EXCEPT !.final_decision =
                                correct_article_reference(Strip(o.val))]
                    /\ s_status' = Append(s_status, "success: review")
               ELSE /\ st' = [st EXCEPT !.final_decision = st.decision]
                    /\ s_status' = Append(s_status, "warning: review")
  /\ s_ret' = "result"
  /\ s_pc' = "returned"
  /\ UNCHANGED g_vars
  /\ UNCHANGED <<s_prompt, aux_vars>>

(***************************************************************************)
(* extract_article of news_text_scraper.py                                 *)
(***************************************************************************)
\* what a function call comes to: the exception it raises ("" for none,
\* with the HTTP status of an HTTPError) or the value it returns
Raised(e, status) == [raised |-> e, status |-> status, val |-> NoneDict]
Returned(v) == [raised |-> "", status |-> 0, val |-> v]

\* the status codes the server answers requests.get with
Statuses == {200, 403, 429, 500}

\* what trafilatura.extract / Article.parse find in a page: nothing, or a
\* title, a text and an image, each possibly missing
Parsed ==
  {NoneDict}
    \cup {[title |-> t, text |-> x, image_url |-> u] :
            t \in {None, Title}, x \in {None, Body}, u \in {None, ImageUrl}}

\* response.raise_for_status() of fetch_with_headers
fetch_with_headers(status) ==
  IF status >= 400 THEN Raised("HTTPError", status) ELSE Returned(NoneDict)

\* try: html = fetch_with_headers(url) ... except Exception: return None
extract_trafilatura(status, parsed) ==
  IF fetch_with_headers(status).raised # ""
  THEN Returned(NoneDict)
  ELSE Returned(parsed)

extract_newspaper(status, parsed) ==
  IF fetch_with_headers(status).raised # ""
  THEN Returned(NoneDict)
  ELSE Returned(parsed)

\* html = get_rendered_html_playwright(url), None when the browser failed
extract_playwright_trafilatura(rendered, parsed) ==
  IF rendered THEN Returned(parsed) ELSE Returned(NoneDict)

extract_playwright_newspaper(rendered, parsed) ==
  IF rendered THEN Returned(parsed) ELSE Returned(NoneDict)

\* the list extractors, extended when PLAYWRIGHT_AVAILABLE
extractors ==
  <<"Trafilatura", "Newspaper3k">>
    \o (IF e_playwright
        THEN <<"Playwright+Trafilatura", "Playwright+Newspaper3k">>
        ELSE <<>>)

\* the strategies that go through fetch_with_headers
Fetching == {"Trafilatura", "Newspaper3k"}

\* data = extractor(url)
Extractor(name, status, rendered, parsed) ==
  CASE name = "Trafilatura" -> extract_trafilatura(status, parsed)
    [] name = "Newspaper3k" -> extract_newspaper(status, parsed)
    [] name = "Playwright+Trafilatura" ->
         extract_playwright_trafilatura(rendered, parsed)
    [] name = "Playwright+Newspaper3k" ->
         extract_playwright_newspaper(rendered, parsed)

\* one turn of the loop over extractors; e_log keeps the strategy and the
\* status its fetch was answered with (0: the strategy renders the page in
\* a browser and never calls fetch_with_headers)
extract_attempt ==
  /\ e_pc = "loop"
  /\ Len(e_log) < Len(extractors)
  /\ LET name == extractors[Len(e_log) + 1] IN
     \E status \in (IF name \in Fetching THEN Statuses ELSE {0}),
        rendered \in (IF name \in Fetching THEN {TRUE} ELSE BOOLEAN),
        parsed \in Parsed :
       LET r == Extractor(name, status, rendered, parsed)
           data == r.val
           merged == [key \in DOMAIN e_result |->
                        IF ~Truthy(e_result[key]) /\ Truthy(data[key])
                        THEN data[key] ELSE e_result[key]]
       IN /\ e_log' = Append(e_log, [name |-> name, status |-> status])
          /\ IF r.raised = "HTTPError" /\ r.status \in {403, 429}
             THEN /\ e_pc' = "done"
                  /\ e_ret' = "raised"
                  /\ e_result' = e_result
             ELSE IF r.raised # "" \/ data = NoneDict
             THEN UNCHANGED <<e_pc, e_ret, e_result>>
             ELSE /\ e_result' = merged
                  /\ IF Truthy(merged.title) /\ Truthy(merged.text)
                          /\ Truthy(merged.image_url)
                     THEN e_pc' = "done" /\ e_ret' = "result"
                     ELSE UNCHANGED <<e_pc, e_ret>>
  /\ UNCHANGED <<env, g_vars, s_vars, c_vars, p_vars, r_vars, e_playwright>>

\* after the loop: the partial result if it has a title or a text, else None
extract_exhausted ==
  /\ e_pc = "loop"
  /\ Len(e_log) = Len(extractors)
  /\ e_pc' = "done"
  /\ e_ret' = IF Truthy(e_result.title) \/ Truthy(e_result.text)
              THEN "result" ELSE "None"
  /\ UNCHANGED <<env, g_vars, s_vars, c_vars, p_vars, r_vars>>
  /\ UNCHANGED <<e_playwright, e_result, e_log>>

(***************************************************************************)
(* correct_article_reference on its own                                    *)
(***************************************************************************)
\* the longest run of characters after the ordinal of a citation
MaxTail == 4
\* the longest text without a citation
MaxPlain == 4

\* a second citation, of article 1 under a wrong name, after the first
SecondCite == Cite(<<"1">>, <<"y">>, "c1", <<>>)

\* The texts handed to correct_article_reference: a citation of a known
\* (4, 10) or unknown (9, 01) article under a wrong or right name, with an
\* ordinal the article has (c2) or that article 4 lacks (c5), followed by
\* any run of qualifiers, parentheses and letters, then by nothing, a full
\* stop or a second citation; or a text that has no closing bracket and so
\* no citation.
CiteInputs ==
  [kind : {"cite"},
   pre : {<<"x">>},
   num : {<<"4">>, <<"1", "0">>, <<"9">>, <<"0", "1">>},
   name : {<<"y">>, <<"n", "4">>},
   item : {"c2", "c5"},
   tail : SeqsUpTo({"hang", "ho", "lp", "rp", "y"}, MaxTail),
   post : {<<>>, <<"dot">>, SecondCite}]
PlainInputs ==
  [kind : {"plain"},
   text : SeqsUpTo({"je", "1", "jo", "lq", "y", "c1", "lp"}, MaxPlain)]

\* the text of an input
TextOf(in) ==
  IF in.kind = "plain" THEN in.text
  ELSE in.pre \o Cite(in.num, in.name, in.item, in.tail) \o in.post

\* final_decision = correct_article_reference(...)
correct_text ==
  /\ c_pc = "text"
  /\ c_once' = correct_article_reference(c_text)
  /\ c_pc' = "once"
  /\ UNCHANGED <<env, g_vars, s_vars, e_vars, p_vars, r_vars>>
  /\ UNCHANGED <<c_in, c_text, c_twice>>

\* the corrector run again on what it returned
correct_again ==
  /\ c_pc = "once"
  /\ c_twice' = correct_article_reference(c_once)
  /\ c_pc' = "twice"
  /\ UNCHANGED <<env, g_vars, s_vars, e_vars, p_vars, r_vars>>
  /\ UNCHANGED <<c_in, c_text, c_once>>

(***************************************************************************)
(* parse_regulation_dict                                                   *)
(***************************************************************************)
\* the largest number of lines of a regulation text
MaxLines == 3

\* The lines a regulation text is made of here, by name:
\*   "a1" "a4" "a10"  the lines of articles 1, 4 and 10 of REGULATION_DICT,
\*                    items separated by a space
\*   "a1z"            another line numbered 1
\*   "head"           a line of prose, as the first two lines of REGULATION
\*   "empty"          an empty line
\*   "noitems"        제1조「n1」 with nothing after the name
\*   "indented"       a well-formed line of article 4 after a space
\*   "nonumber"       제조「n」①a
\*   "gaps"           제4조「n4」x①②y : text before the first ordinal, and an
\*                    ordinal with no text
LineNames ==
  {"a1", "a4", "a10", "a1z", "head", "empty", "noitems", "indented",
   "nonumber", "gaps"}

LineText(l) ==
  CASE l = "a1" -> <<"je", "1", "jo", "lq", "n", "1", "rq", "c1", "a", "1",
                     "sp", "c2", "a", "2", "sp", "c5", "a", "5">>
    [] l = "a4" -> <<"je", "4", "jo", "lq", "n", "4", "rq", "c1", "b", "1",
                     "sp", "c2", "b", "2">>
    [] l = "a10" -> <<"je", "1", "0", "jo", "lq", "n", "10", "rq", "c1", "d",
                      "1", "sp", "c2", "d", "2", "sp", "c5", "d", "5">>
    [] l = "a1z" -> <<"je", "1", "jo", "lq", "z", "rq", "c1", "q">>
    [] l = "head" -> <<"x", "sp", "x">>
    [] l = "empty" -> <<>>
    [] l = "noitems" -> <<"je", "1", "jo", "lq", "n", "1", "rq">>
    [] l = "indented" -> <<"sp", "je", "4", "jo", "lq", "n", "4", "rq", "c1",
                           "b", "1">>
    [] l = "nonumber" -> <<"je", "jo", "lq", "n", "rq", "c1", "a">>
    [] l = "gaps" -> <<"je", "4", "jo", "lq", "n", "4", "rq", "x", "c1", "c2",
                       "y">>

\* REGULATION: the text whose lines are those named in names
RegulationText(names) ==
  Join([i \in 1..Len(names) |-> LineText(names[i])], <<"nl">>)

\* item_content keeping the spaces around the text of an item
item_content_unstripped(raw) == raw

\* item_content = item_match.group(2).strip()
item_content(raw) == Strip(raw)

RECURSIVE ItemsFrom(_, _, _)
\* for item_match in re.finditer(r'([①-⑩])([^①-⑩]+)', items_text) from
\* position i on, items so far
ItemsFrom(t, i, items) ==
  IF i > Len(t) THEN items
  ELSE IF t[i] \in Ordinals /\ i + 1 <= Len(t) /\ t[i + 1] \notin Ordinals
  THEN LET e == CHOOSE j \in (i + 1)..Len(t) :
                  /\ \A k \in (i + 1)..j : t[k] \notin Ordinals
                  /\ (j = Len(t) \/ t[j + 1] \in Ordinals)
       IN ItemsFrom(t, e + 1,
                    Put(items, t[i], item_content(SubSeq(t, i + 1, e))))
  ELSE ItemsFrom(t, i + 1, items)

\* line.startswith('제') and re.match(r'제(\d+)조「([^」]+)」(.+)', line): the
\* number and the entry of the line, or ok = FALSE
parse_line(line) ==
  LET nomatch == [ok |-> FALSE, num |-> <<>>, entry |-> <<>>]
      dEnd == DigitsEnd(line, 2)
      rq == FirstAt(line, dEnd + 3, "rq")
  IN IF line = <<>> \/ line[1] # "je" \/ dEnd = 0 THEN nomatch
     ELSE IF dEnd + 2 > Len(line) \/ line[dEnd + 1] # "jo"
               \/ line[dEnd + 2] # "lq"
     THEN nomatch
     ELSE IF rq = 0 \/ rq = dEnd + 3 \/ rq = Len(line) THEN nomatch
     ELSE [ok |-> TRUE, num |-> SubSeq(line, 2, dEnd),
           entry |-> [name |-> SubSeq(line, dEnd + 3, rq - 1),
                      items |-> ItemsFrom(SubSeq(line, rq + 1, Len(line)),
                                          1, <<>>)]]

RECURSIVE ParseLines(_, _, _)
\* for line in lines, from line i on, articles so far
ParseLines(lines, i, articles) ==
  IF i > Len(lines) THEN articles
  ELSE LET m == parse_line(lines[i])
       IN ParseLines(lines, i + 1,
                     IF m.ok THEN Put(articles, m.num, m.entry) ELSE articles)

parse_regulation_dict(text) == ParseLines(Split(text, "nl"), 1, <<>>)

\* REGULATION_DICT = parse_regulation_dict()
parse ==
  /\ p_pc = "text"
  /\ p_out' = parse_regulation_dict(RegulationText(p_lines))
  /\ p_pc' = "parsed"
  /\ UNCHANGED <<env, g_vars, s_vars, e_vars, c_vars, r_vars, p_lines>>

(***************************************************************************)
(* Concurrent requests (multimodal_rag_langgraph_gemini_st.py)             *)
(***************************************************************************)
\* the sessions whose script runs at the same time, each in its own thread
\* of the one server process, and the keys their users typed in
Requests == {"r1", "r2"}
Keys == {"k1", "k2"}
\* the largest number of call_gemini calls one request makes
MaxCalls == 2

\* load_embedding_model() and load_chroma_collection() under
\* st.cache_resource: built by the first request that asks, handed out as
\* built to every later one
load_resources(r) ==
  /\ r_pc[r] = "load"
  /\ cache_resource' = IF cache_resource = "empty" THEN "built"
                       ELSE cache_resource
  /\ r_pc' = [r_pc EXCEPT ![r] = "configure"]
  /\ UNCHANGED <<genai_api_key, r_key, r_used>>
  /\ UNCHANGED <<env, g_vars, s_vars, e_vars, c_vars, p_vars>>

\* genai.configure(api_key=api_key): sets the key of the module genai
configure(r) ==
  /\ r_pc[r] = "configure"
  /\ genai_api_key' = r_key[r]
  /\ r_pc' = [r_pc EXCEPT ![r] = "generate"]
  /\ UNCHANGED <<cache_resource, r_key, r_used>>
  /\ UNCHANGED <<env, g_vars, s_vars, e_vars, c_vars, p_vars>>

\* model.generate_content(...): goes out with the key the module holds;
\* the request then makes its next call or is over
generate_content(r) ==
  /\ r_pc[r] = "generate"
  /\ r_used' = [r_used EXCEPT ![r] = Append(@, genai_api_key)]
  /\ \E next \in (IF Len(r_used[r]) + 1 < MaxCalls
                  THEN {"configure", "done"} ELSE {"done"}) :
       r_pc' = [r_pc EXCEPT ![r] = next]
  /\ UNCHANGED <<genai_api_key, cache_resource, r_key>>
  /\ UNCHANGED <<env, g_vars, s_vars, e_vars, c_vars, p_vars>>

(***************************************************************************)
(* Specification                                                           *)
(***************************************************************************)
\* no extract_article call under way
IdleExtract ==
  /\ e_pc = "idle"
  /\ e_playwright = FALSE
  /\ e_result = [title |-> None, text |-> None, image_url |-> None]
  /\ e_log = <<>>
  /\ e_ret = "running"

\* the two implementations before their first stage
InitRun ==
  /\ g_pc = "extract"
  /\ state = [url |-> Url]
  /\ g_calls = <<>>
  /\ g_ret = "running"
  /\ s_pc = "extract"
  /\ st \in {[collection |-> c, article |-> EmptyDict, image_desc |-> None,
              similar_cases |-> <<>>, violation_count |-> 0,
              no_violation_count |-> 0, decision |-> <<>>,
              final_decision |-> <<>>] : c \in BOOLEAN}
  /\ s_calls = <<>>
  /\ s_status = <<>>
  /\ s_ret = "running"
  /\ g_prompt = <<>>
  /\ s_prompt = <<>>

\* the two pipelines before their first stage, no collaborator called yet
InitPipeline ==
  /\ env = <<>>
  /\ InitRun

\* no text under correction
IdleCorrect ==
  /\ c_pc = "idle"
  /\ c_in = [kind |-> "plain", text |-> <<>>]
  /\ c_text = <<>>
  /\ c_once = <<>>
  /\ c_twice = <<>>

\* no regulation text under parsing
IdleParse ==
  /\ p_pc = "idle"
  /\ p_lines = <<>>
  /\ p_out = <<>>

\* no request under way
IdleRequests ==
  /\ genai_api_key = ""
  /\ cache_resource = "empty"
  /\ r_pc = [r \in Requests |-> "idle"]
  /\ r_key = [r \in Requests |-> "k1"]
  /\ r_used = [r \in Requests |-> <<>>]

Init ==
  /\ InitPipeline
  /\ IdleExtract
  /\ IdleCorrect
  /\ IdleParse
  /\ IdleRequests

Next ==
  \/ extract_node
  \/ image_node
  \/ search_node
  \/ decide_node
  \/ review_node
  \/ analyze_article
  \/ st_extract
  \/ st_image
  \/ st_search
  \/ st_decide
  \/ st_review

Spec == Init /\ [][Next]_vars

\* extract_article called on a URL, the pipelines at rest
InitExtract ==
  /\ InitPipeline
  /\ st.collection
  /\ IdleCorrect
  /\ IdleParse
  /\ IdleRequests
  /\ e_pc = "loop"
  /\ e_playwright \in BOOLEAN
  /\ e_result = [title |-> None, text |-> None, image_url |-> None]
  /\ e_log = <<>>
  /\ e_ret = "running"

NextExtract ==
  \/ extract_attempt
  \/ extract_exhausted

SpecExtract == InitExtract /\ [][NextExtract]_vars

\* correct_article_reference called on a text, everything else at rest
InitCorrect ==
  /\ InitPipeline
  /\ st.collection
  /\ IdleExtract
  /\ IdleParse
  /\ IdleRequests
  /\ c_pc = "text"
  /\ c_in \in CiteInputs \cup PlainInputs
  /\ c_text = TextOf(c_in)
  /\ c_once = <<>>
  /\ c_twice = <<>>

NextCorrect ==
  \/ correct_text
  \/ correct_again

SpecCorrect == InitCorrect /\ [][NextCorrect]_vars

\* an article whose body is one character longer than the prompt takes
LongBody == [i \in 1..(text_limit + 1) |-> "x"]

\* up to n_results precedent cases of one kind, the last one possibly
\* without a reason
ManyCases ==
  LET kinds == {NoViolation \o <<"x">>, <<"x">> \o Violation}
      same == {[i \in 1..k |-> r] : k \in 3..n_results, r \in kinds}
  IN same \cup {Append(q, NoReason) : q \in {c \in same : Len(c) < n_results}}

\* The two pipelines run on an article with a long or a short body and on
\* an index that returns up to n_results cases
InitPrompt ==
  /\ env \in {[article |-> [title |-> Title, text |-> b, image_url |-> u],
                search |-> Ok(r)] :
                 b \in {Body, LongBody}, u \in {None, ImageUrl},
                 r \in ManyCases}
  /\ InitRun
  /\ st.collection
  /\ IdleExtract
  /\ IdleCorrect
  /\ IdleParse
  /\ IdleRequests

SpecPrompt == InitPrompt /\ [][Next]_vars

\* two sessions start an analysis at the same time, each with its own key
InitRequests ==
  /\ InitPipeline
  /\ st.collection
  /\ IdleExtract
  /\ IdleCorrect
  /\ IdleParse
  /\ genai_api_key = ""
  /\ cache_resource = "empty"
  /\ r_pc = [r \in Requests |-> "load"]
  /\ r_key \in [Requests -> Keys]
  /\ r_used = [r \in Requests |-> <<>>]

NextRequests ==
  \/ \E r \in Requests : load_resources(r)
  \/ \E r \in Requests : configure(r)
  \/ \E r \in Requests : generate_content(r)

SpecRequests == InitRequests /\ [][NextRequests]_vars

\* parse_regulation_dict called on a regulation text of up to MaxLines
\* lines, everything else at rest
InitParse ==
  /\ InitPipeline
  /\ st.collection
  /\ IdleExtract
  /\ IdleCorrect
  /\ IdleRequests
  /\ p_pc = "text"
  /\ p_lines \in SeqsUpTo(LineNames, MaxLines)
  /\ p_out = <<>>

NextParse == parse

SpecParse == InitParse /\ [][NextParse]_vars

(***************************************************************************)
(* Properties                                                              *)
(***************************************************************************)
Range(q) == {q[i] : i \in 1..Len(q)}

\* the stages of the graph that have returned
g_extracted == g_pc # "extract"
g_searched == "similar_cases" \in DOMAIN state
g_decided == "violation_count" \in DOMAIN state
g_reviewed == "review_result" \in DOMAIN state
g_error == Get(state, "error", None)
\* the local no_violation_count of decide_node
g_no_violation_count ==
  LineCount(Get(state, "similar_cases", <<>>), "no_violation")

\* the stages of the inline sequence that are over
s_extracted == s_pc # "extract"
s_searched == Range(s_status) \cap {"success: search", "warning: search"} # {}
s_decided == "gen_decide" \in Range(s_calls)
s_reviewed == s_ret = "result"

\* the extractor returned nothing, or a result without usable text
NoUsableText ==
  /\ "article" \in DOMAIN env
  /\ (env.article = NoneDict \/ env.article.text \in {None, <<>>})

DecideFailed == "decide" \in DOMAIN env /\ env.decide.err # ""
ReviewFailed == "review" \in DOMAIN env /\ env.review.err # ""
ImageFailed == "image" \in DOMAIN env /\ env.image.err # ""
\* an error of the retrieval: embedding, query, or a metadata without reason
SearchFailed ==
  /\ "search" \in DOMAIN env
  /\ (env.search.err # "" \/ \E i \in 1..Len(env.search.val) :
                                env.search.val[i] = NoReason)

\* C1: after an extraction that returned nothing or no usable text, Extract
\* sets error and the run is over: no other stage runs, so the extractor call
\* is the only collaborator call and only error was added to the record.
C1_FailedExtractionEndsRun ==
  NoUsableText =>
    /\ g_extracted =>
         /\ g_calls = <<"extract_article">>
         /\ DOMAIN state = {"url", "error"}
    /\ s_extracted =>
         /\ s_calls = <<"extract_article">>
         /\ s_pc = "returned" /\ s_ret = "None"

\* C2: when the generation call of Decide failed (after a successful
\* extraction), error is set, no review generation call is issued and no
\* review_result / final decision exists.
C2_DecideFailureSkipsReview ==
  (DecideFailed /\ ~NoUsableText) =>
    /\ g_decided =>
         /\ Truthy(g_error)
         /\ "gen_review" \notin Range(g_calls)
         /\ ~g_reviewed
    /\ s_decided =>
         /\ "gen_review" \notin Range(s_calls)
         /\ s_ret = "None"

\* the draft holds the no-violation marker in one of its two spellings
DraftHasMarker(draft) ==
  \/ \E i \in 1..(Len(draft) - 4) :
       SubSeq(draft, i, i + 4) = <<"wi", "ban", "sp", "eop", "eum">>
  \/ \E i \in 1..(Len(draft) - 3) :
       SubSeq(draft, i, i + 3) = <<"wi", "ban", "eop", "eum">>

\* C3: whenever the draft holds the no-violation marker (either spelling,
\* anywhere), the final decision is exactly the canonical marker and no
\* review generation call was made.
C3_MarkerShortCircuits ==
  /\ (g_reviewed /\ DraftHasMarker(state.decision)) =>
       /\ state.review_result.final_decision
            = <<"wi", "ban", "sp", "eop", "eum">>
       /\ "gen_review" \notin Range(g_calls)
  /\ (s_reviewed /\ DraftHasMarker(st.decision)) =>
       /\ st.final_decision = <<"wi", "ban", "sp", "eop", "eum">>
       /\ "gen_review" \notin Range(s_calls)

C3_Witness ==
  /\ g_reviewed /\ s_reviewed
  /\ state.decision = <<"x", "wi", "ban", "eop", "eum", "x">>
  /\ st.decision = state.decision
  /\ state.review_result.final_decision = NoViolation
  /\ st.final_decision = NoViolation

\* the step in which the review generation call fails
g_review_fails ==
  /\ g_calls' = Append(g_calls, "gen_review")
  /\ env'.review.err # ""
s_review_fails ==
  /\ s_calls' = Append(s_calls, "gen_review")
  /\ env'.review.err # ""

\* C4: a failing review generation call does not abort the run and leaves
\* error as it was (unset after a successful Decide): the final decision is
\* the unreviewed draft, character for character, flagged as not passed.
C4_ReviewFailureFallsBack ==
  [][/\ g_review_fails =>
          /\ g_pc' = "END"
          /\ DOMAIN state' = DOMAIN state \cup {"review_result"}
          /\ \A k \in DOMAIN state : state'[k] = state[k]
          /\ state'.review_result.final_decision = state.decision
          /\ state'.review_result.passed = FALSE
          /\ Get(state', "error", None) = g_error
     /\ s_review_fails =>
          /\ s_ret' = "result"
          /\ st'.final_decision = st.decision
          /\ s_status' = Append(s_status, "warning: review")]_vars

C4_Witness ==
  /\ g_reviewed /\ s_reviewed
  /\ ReviewFailed /\ ~DecideFailed
  /\ "gen_review" \in Range(g_calls) /\ "gen_review" \in Range(s_calls)
  /\ state.review_result.final_decision = state.decision
  /\ ~state.review_result.passed
  /\ st.final_decision = st.decision
  /\ state.decision # <<>>

\* t holds a citation whose number, name and item are those of an article
\* of the knowledge base
CitesKnowledgeBase(t) ==
  \E i \in 1..Len(t) :
    LET m == MatchAt(t, i)
    IN /\ m.ok
       /\ m.num \in DOMAIN REGULATION_DICT
       /\ m.name = REGULATION_DICT[m.num].name
       /\ m.item \in DOMAIN REGULATION_DICT[m.num].items

\* C5: every final decision is exactly the canonical no-violation marker or
\* cites a number/name/item combination of the knowledge base, on every path
\* (ShortCircuit, successful FullReview, review-failure fallback).
C5_FinalDecisionIsMarkerOrCitesKB ==
  /\ g_ret = "result" =>
       \/ state.review_result.final_decision = NoViolation
       \/ CitesKnowledgeBase(state.review_result.final_decision)
  /\ s_reviewed =>
       \/ st.final_decision = NoViolation
       \/ CitesKnowledgeBase(st.final_decision)

\* the Image or the Search stage of the graph ran and failed
g_image_failed == ImageFailed /\ "image_desc" \in DOMAIN state
g_search_failed == SearchFailed /\ g_searched
\* the same for the inline sequence, where a collection that could not be
\* loaded is a failure of Search too
s_image_failed == ImageFailed /\ s_pc \notin {"extract", "image"}
s_search_failed == s_searched /\ (SearchFailed \/ ~st.collection)

\* C6: a failure inside Image or Search never sets error: the image
\* description stays absent, respectively the case list empty, the run is not
\* over before Decide, and it ends with a final decision when Decide succeeds.
C6_SupplementaryFailuresAbsorbed ==
  /\ g_image_failed => state.image_desc = None
  /\ g_search_failed => state.similar_cases = <<>>
  /\ (g_image_failed \/ g_search_failed) =>
       /\ g_pc # "crashed"
       /\ (~NoUsableText /\ ~(g_decided /\ DecideFailed)) => ~Truthy(g_error)
       /\ (~NoUsableText /\ g_pc = "returned" /\ ~DecideFailed) =>
            /\ g_ret = "result"
            /\ g_reviewed
            /\ "gen_decide" \in Range(g_calls)
  /\ s_image_failed => st.image_desc = None
  /\ s_search_failed => st.similar_cases = <<>>
  /\ (s_image_failed \/ s_search_failed) =>
       /\ (s_ret = "None" => (s_decided /\ DecideFailed))
       /\ (s_pc = "returned" /\ ~DecideFailed) =>
            /\ s_ret = "result"
            /\ "gen_decide" \in Range(s_calls)

C6_Witness ==
  /\ g_image_failed /\ g_search_failed
  /\ s_image_failed /\ s_search_failed
  /\ env.image.err = "fetch_error"
  /\ g_pc = "returned" /\ g_ret = "result"
  /\ s_pc = "returned" /\ s_ret = "result"
  /\ state.review_result.final_decision # <<>>
  /\ st.final_decision # <<>>

\* the number of similar cases the run retrieved: the entries of
\* similar_cases, none when the retrieval failed
Retrieved == IF SearchFailed THEN 0 ELSE Len(env.search.val)

\* C7: violation_tally + no_violation_tally <= number of retrieved similar
\* cases and each tally is within 0..5 (so no case is counted twice), for
\* any reason texts and also when retrieval fails part-way.
C7_TallyBounded ==
  /\ (g_decided /\ ~NoUsableText) =>
       /\ state.violation_count + g_no_violation_count <= Retrieved
       /\ state.violation_count \in 0..n_results
       /\ g_no_violation_count \in 0..n_results
  /\ (s_searched /\ st.collection) =>
       /\ st.violation_count + st.no_violation_count <= Retrieved
       /\ st.violation_count \in 0..n_results
       /\ st.no_violation_count \in 0..n_results

\* C8: any error during retrieval, wherever it occurs, leaves an empty
\* similar-case list and both tallies zero, and the run goes on to Decide.
C8_RetrievalErrorLeavesNothing ==
  /\ g_search_failed =>
       /\ state.similar_cases = <<>>
       /\ g_pc # "crashed"
       /\ g_decided => (state.violation_count = 0 /\ g_no_violation_count = 0)
  /\ s_search_failed =>
       /\ st.similar_cases = <<>>
       /\ st.violation_count = 0
       /\ st.no_violation_count = 0
       /\ s_pc # "returned" \/ s_decided

\* the reason holds "위반 없음" or "위반없음"
SaysNoViolation(reason) ==
  \/ \E i \in 1..(Len(reason) - 4) :
       SubSeq(reason, i, i + 4) = <<"wi", "ban", "sp", "eop", "eum">>
  \/ \E i \in 1..(Len(reason) - 3) :
       SubSeq(reason, i, i + 3) = <<"wi", "ban", "eop", "eum">>
\* the reason holds "위반"
SaysViolation(reason) ==
  \E i \in 1..(Len(reason) - 1) : SubSeq(reason, i, i + 1) = <<"wi", "ban">>

\* C9: a retrieved case is counted in no_violation_tally iff its reason
\* holds "위반 없음" or "위반없음", otherwise in violation_tally iff its reason
\* holds "위반", and in neither tally otherwise.
C9_TallyRule ==
  LET reasons == env.search.val
      no_violation ==
        Cardinality({i \in 1..Len(reasons) : SaysNoViolation(reasons[i])})
      violation ==
        Cardinality({i \in 1..Len(reasons) :
                       ~SaysNoViolation(reasons[i]) /\ SaysViolation(reasons[i])})
  IN /\ (g_decided /\ ~NoUsableText /\ ~SearchFailed) =>
          /\ g_no_violation_count = no_violation
          /\ state.violation_count = violation
     /\ (s_searched /\ st.collection /\ ~SearchFailed) =>
          /\ st.no_violation_count = no_violation
          /\ st.violation_count = violation

\* the extractor returned a text and no title
TextWithoutTitle ==
  /\ "article" \in DOMAIN env
  /\ env.article # NoneDict
  /\ env.article.title = None
  /\ env.article.text \notin {None, <<>>}

\* C10: an extractor result with a text and no title does not fail Extract:
\* article is set and the run goes on to the later stages.
C10_MissingTitleTolerated ==
  TextWithoutTitle =>
    /\ g_extracted =>
         /\ g_pc # "crashed"
         /\ ~Truthy(g_error)
         /\ "article" \in DOMAIN state /\ state.article = env.article
    /\ s_extracted =>
         /\ st.article = env.article
         /\ s_calls # <<"extract_article">> \/ s_pc = "image"

\* C11: once a strategy's page fetch is answered HTTP 403 or 429,
\* extract_article raises at once: that strategy is the last one attempted
\* and the call ends by propagating the error.
C11_BlockedFetchPropagates ==
  \A i \in 1..Len(e_log) :
    e_log[i].status \in {403, 429} =>
      /\ i = Len(e_log)
      /\ e_pc = "done" => e_ret = "raised"

\* the terminal states of the two implementations, but for the crash: the
\* workflow returned a reviewed record or None with the error recorded, the
\* inline sequence a result or None after an error message
EndsReviewedOrError ==
  /\ g_pc = "returned" =>
       \/ g_ret = "result" /\ g_reviewed /\ ~Truthy(g_error)
       \/ g_ret = "None" /\ Truthy(g_error)
  /\ s_pc = "returned" =>
       \/ s_ret = "result" /\ s_reviewed
       \/ s_ret = "None" /\ s_status # <<>>

\* C12: whatever the collaborators return or raise, a run ends reviewed or
\* in error with the failure recorded; no exception leaves the pipeline.
C12_NoExceptionEscapes ==
  /\ g_pc # "crashed"
  /\ g_ret # "raised"
  /\ EndsReviewedOrError

RECURSIVE IsParens(_)
\* s is a run of parentheticals (...)(...), none holding a ")"
IsParens(s) ==
  \/ s = <<>>
  \/ /\ s[1] = "lp"
     /\ \E j \in 2..Len(s) :
          /\ s[j] = "rp"
          /\ \A k \in 2..(j - 1) : s[k] # "rp"
          /\ IsParens(SubSeq(s, j + 1, Len(s)))

\* p has the form [항|호][(...)]... of what the citation pattern takes after
\* the ordinal
IsQualifier(p) ==
  \/ IsParens(p)
  \/ p # <<>> /\ p[1] \in {"hang", "ho"} /\ IsParens(Tail(p))

\* what follows the citation match in a text whose citation has the tail tl:
\* tl without its longest prefix of that form
Rest(tl) ==
  LET n == CHOOSE k \in 0..Len(tl) :
             /\ IsQualifier(SubSeq(tl, 1, k))
             /\ \A m \in (k + 1)..Len(tl) : ~IsQualifier(SubSeq(tl, 1, m))
  IN SubSeq(tl, n + 1, Len(tl))

\* the citation of item of article num as the knowledge base has it
Canonical(num, item) ==
  LET entry == REGULATION_DICT[num]
  IN Cite(num, entry.name, item,
          IF item \in DOMAIN entry.items
          THEN <<"lp">> \o entry.items[item] \o <<"rp">>
          ELSE <<>>)

\* the text after the first citation, its second citation corrected
CanonPost(post) ==
  IF post = SecondCite
  THEN Cite(<<"1">>, <<"n", "1">>, "c1", <<"lp", "a", "1", "rp">>)
  ELSE post

Corrected == c_pc \in {"once", "twice"}

Suffix(t, n) == SubSeq(t, Len(t) - n + 1, Len(t))

\* C14: a text without a citation comes out identical, a citation of an
\* article the knowledge base lacks comes out as it was, and the text before
\* and after a citation match comes out as it was.
C14_OnlyKnownCitationsChange ==
  Corrected =>
    /\ c_in.kind = "plain" => c_once = c_text
    /\ c_in.kind = "cite" =>
         LET after == Rest(c_in.tail) \o CanonPost(c_in.post)
         IN /\ c_in.num \notin DOMAIN REGULATION_DICT =>
                 c_once = c_in.pre
                            \o Cite(c_in.num, c_in.name, c_in.item, c_in.tail)
                            \o CanonPost(c_in.post)
            /\ Len(c_once) >= Len(c_in.pre) + Len(after)
            /\ SubSeq(c_once, 1, Len(c_in.pre)) = c_in.pre
            /\ Suffix(c_once, Len(after)) = after

\* article 9, which the knowledge base lacks, cited with a qualifier and a
\* parenthetical
C14_Witness ==
  /\ c_pc = "once"
  /\ c_in.kind = "cite"
  /\ c_in.num = <<"9">> /\ c_in.tail = <<"hang", "lp", "rp">>
  /\ c_in.post = <<"dot">>
  /\ c_once = c_text

NoResidue ==
  \/ c_in.kind = "plain"
  \/ Rest(c_in.tail) = <<>>
  \/ Rest(c_in.tail)[1] \notin {"hang", "ho", "lp"}

Section(header, body) == <<"nl", "nl", header, "nl">> \o body

\* the prompt as specified: regulation text, instruction template, the
\* article (title, then the first text_limit characters of the body), the
\* image description if there is one, the similar cases if there are any,
\* and the steering note exactly when the no-violation tally is 4 or more
SpecifiedPrompt(article, image_desc, similar_cases, tally) ==
  LET text == Get(article, "text", <<>>)
      cut == [i \in 1..(IF Len(text) > text_limit THEN text_limit
                        ELSE Len(text)) |-> text[i]]
  IN <<"REGULATION", "nl", "nl", "INST_PROMPT">>
       \o Section("h_article", Get(article, "title", <<>>) \o <<"sp">> \o cut)
       \o (IF image_desc \notin {None, <<>>}
           THEN Section("h_image", image_desc) ELSE <<>>)
       \o (IF similar_cases # <<>>
           THEN Section("h_cases", similar_cases) ELSE <<>>)
       \o (IF tally >= 4 THEN <<"nl", "nl", "note">> \o Str(tally) ELSE <<>>)

\* C15: the Decide prompt of either implementation is the specified one;
\* in particular it ends with the steering note if and only if the
\* no-violation tally is 4 or more.
C15_DecidePromptAsSpecified ==
  /\ g_decided =>
       g_prompt = SpecifiedPrompt(Get(state, "article", EmptyDict),
                                  Get(state, "image_desc", None),
                                  Get(state, "similar_cases", <<>>),
                                  g_no_violation_count)
  /\ s_decided =>
       s_prompt = SpecifiedPrompt(st.article, st.image_desc, st.similar_cases,
                                  st.no_violation_count)

\* C16: requests served at the same time do not read each other's state:
\* every generation call of a request goes out with the key that request
\* was given, and the cached resources are built once and only read after.
C16_RequestsIndependent ==
  /\ \A r \in Requests : \A i \in 1..Len(r_used[r]) : r_used[r][i] = r_key[r]
  /\ cache_resource = "empty" => \A r \in Requests : r_pc[r] = "load"

\* the fields of the analysis record a step of the graph sets or changes
Written ==
  {k \in DOMAIN state' : k \notin DOMAIN state \/ state'[k] # state[k]}

\* the fields each node of the graph may write
OwnFields(node) ==
  CASE node = "extract" -> {"article", "error"}
    [] node = "image" -> {"image_desc"}
    [] node = "search" -> {"similar_cases"}
    [] node = "decide" -> {"decision", "violation_count", "error"}
    [] node = "review" -> {"review_result"}
    [] OTHER -> {}

\* the fields written by the nodes that run after node
LaterFields(node) ==
  CASE node = "extract" ->
         {"image_desc", "similar_cases", "decision", "violation_count",
          "review_result"}
    [] node = "image" ->
         {"similar_cases", "decision", "violation_count", "review_result"}
    [] node = "search" -> {"decision", "violation_count", "review_result"}
    [] node = "decide" -> {"review_result"}
    [] OTHER -> {}

\* C17: a node of the graph sets or changes only its own fields of the
\* analysis record and removes none; url keeps its value and article, once
\* set by Extract, is never overwritten; and when a node runs, the fields
\* that only later nodes write are not in the record yet, so it cannot read
\* them.
C17_StagesWriteOwnFields ==
  [][/\ DOMAIN state \subseteq DOMAIN state'
     /\ Written \subseteq OwnFields(g_pc)
     /\ state'.url = Url
     /\ "article" \in DOMAIN state => state'.article = state.article
     /\ DOMAIN state \cap LaterFields(g_pc) = {}]_vars

\* a run of the graph in which every node has written its fields
C17_Witness ==
  /\ g_pc = "returned"
  /\ DOMAIN state = {"url", "article", "image_desc", "similar_cases",
                     "decision", "violation_count", "review_result"}
  /\ state.url = Url
  /\ state.article = env.article
  /\ Truthy(state.image_desc)
  /\ state.similar_cases # <<>>

\* the article number and the entry that a well-formed line stands for
LineNumber(l) ==
  CASE l \in {"a1", "a1z"} -> <<"1">>
    [] l \in {"a4", "gaps"} -> <<"4">>
    [] l = "a10" -> <<"1", "0">>
LineEntry(l) ==
  CASE l = "a1" -> REGULATION_DICT[<<"1">>]
    [] l = "a4" -> REGULATION_DICT[<<"4">>]
    [] l = "a10" -> REGULATION_DICT[<<"1", "0">>]
    [] l = "a1z" -> [name |-> <<"z">>, items |-> ("c1" :> <<"q">>)]
    [] l = "gaps" -> [name |-> <<"n", "4">>, items |-> ("c2" :> <<"y">>)]
\* the lines that match the article pattern
Matching == {"a1", "a4", "a10", "a1z", "gaps"}

\* the positions of p_lines that hold a matching line
MatchingAt == {i \in 1..Len(p_lines) : p_lines[i] \in Matching}

\* C18: parsing never fails; the lines that do not match the article
\* pattern leave no trace, and every matching line puts exactly the entry
\* of its number N into the mapping (a later line of the same number taking
\* the place of an earlier one). The regulation text itself parses to the
\* knowledge base.
C18_ParseTotalLineByLine ==
  p_pc = "parsed" =>
    /\ DOMAIN p_out = {LineNumber(p_lines[i]) : i \in MatchingAt}
    /\ \A i \in MatchingAt :
         (\A j \in MatchingAt :
            j > i => LineNumber(p_lines[j]) # LineNumber(p_lines[i]))
           => p_out[LineNumber(p_lines[i])] = LineEntry(p_lines[i])
    /\ p_lines = <<"a1", "a4", "a10">> => p_out = REGULATION_DICT

\* a text with a line of prose, a malformed line and a well-formed one
C18_Witness ==
  /\ p_pc = "parsed"
  /\ p_lines = <<"head", "noitems", "a10">>
  /\ DOMAIN p_out = {<<"1", "0">>}
  /\ p_out[<<"1", "0">>].items["c5"] = <<"d", "5">>

\* the review generation call returned a text
ReviewSucceeded == "review" \in DOMAIN env /\ env.review.err = ""

\* the text the review call returned, with the white space at its ends
\* taken off and its citations as the knowledge base has them, written out
\* for each text of Reviews
ReviewedText(r) ==
  CASE r = <<"sp">> \o Cite(<<"1">>, <<"y">>, "c2", <<"hang", "lp", "y", "rp">>)
             \o <<"dot", "nl">> ->
         Cite(<<"1">>, <<"n", "1">>, "c2", <<"lp", "a", "2", "rp">>)
           \o <<"dot">>
    [] r = <<"x">> \o Cite(<<"4">>, <<"n", "4">>, "c5", <<"lp", "y", "rp">>)
             \o <<"dot">> ->
         <<"x">> \o Cite(<<"4">>, <<"n", "4">>, "c5", <<>>) \o <<"dot">>
    [] OTHER -> r

\* the number of review generation calls in a log of calls
ReviewCalls(calls) ==
  Cardinality({i \in 1..Len(calls) : calls[i] = "gen_review"})

\* the graph, resp. the inline sequence, has reviewed a draft without a
\* no-violation marker and its review generation call returned a text
g_review_succeeded ==
  g_reviewed /\ ~HasNoViolationMarker(state.decision) /\ ReviewSucceeded
s_review_succeeded ==
  s_reviewed /\ ~HasNoViolationMarker(st.decision) /\ ReviewSucceeded

BothOver == g_pc \in {"returned", "crashed"} /\ s_pc = "returned"

\* the two implementations ended alike: both without a result, or both with
\* a result of the same final decision and the same violation tally
SameOutcome ==
  \/ g_ret = "None" /\ s_ret = "None"
  \/ /\ g_ret = "result" /\ s_ret = "result"
     /\ g_reviewed
     /\ state.review_result.final_decision = st.final_decision
     /\ state.violation_count = st.violation_count

\* C21: run on the same outcomes of the collaborators, the graph and the
\* inline sequence have, once both are over, made the same collaborator
\* calls in the same order and ended with the same outcome.
C21_ImplementationsEquivalent ==
  (BothOver /\ st.collection) => (g_calls = s_calls /\ SameOutcome)

====
